---- MODULE Spec2Model ----
(***************************************************************************)
(* Stock Market Chatbot: the FastAPI service of app/main.py and the query  *)
(* router of app/utlits/functions.py.                                      *)
(*                                                                         *)
(* Text is modelled as a sequence of one-character strings, so that        *)
(* str.lower, str.upper, str.strip, str.split and the `in` substring test  *)
(* are computed as Python computes them.  The two CSV files are part of    *)
(* the state: a file is either readable (pd.read_csv returns its rows) or  *)
(* not (pd.read_csv raises).  The Gemini call is an input of the chat      *)
(* handler: it returns a text or raises.                                   *)
(***************************************************************************)
EXTENDS Integers, Sequences, FiniteSets, TLC

\* ---------------------------------------------------------------- bounds
MaxWords == 3     \* words per chat message
MaxRows  == 7     \* rows of a small indexData.csv
MaxTurns == 3     \* prompts kept in the dashboard's chat history

\* ------------------------------------------------------ program constants
MaxLimit     == 100   \* main.py:110-111
DefaultLimit == 10    \* main.py:105
ChatLimit    == 5     \* functions.py:137

\* ------------------------------------------------------------------ text
Uppercase == <<"A","B","C","D","E","F","G","H","I","J","K","L","M",
               "N","O","P","Q","R","S","T","U","V","W","X","Y","Z">>
Lowercase == <<"a","b","c","d","e","f","g","h","i","j","k","l","m",
               "n","o","p","q","r","s","t","u","v","w","x","y","z">>
Whitespace == {" ", "\t", "\n"}

\* The case maps, as functions on the letters
LowerOf == [c \in {Uppercase[i] : i \in 1..26} |->
               Lowercase[CHOOSE i \in 1..26 : Uppercase[i] = c]]
UpperOf == [c \in {Lowercase[i] : i \in 1..26} |->
               Uppercase[CHOOSE i \in 1..26 : Lowercase[i] = c]]

LowerChar(c) == IF c \in DOMAIN LowerOf THEN LowerOf[c] ELSE c

UpperChar(c) == IF c \in DOMAIN UpperOf THEN UpperOf[c] ELSE c

\* str.lower()
str_lower(s) == [i \in 1..Len(s) |-> LowerChar(s[i])]

\* str.upper()
str_upper(s) == [i \in 1..Len(s) |-> UpperChar(s[i])]

\* `sub in s` on two strings
str_in(sub, s) ==
    \E i \in 0..(Len(s) - Len(sub)) : SubSeq(s, i + 1, i + Len(sub)) = sub

\* str.strip(): drop leading and trailing whitespace
RECURSIVE lstrip(_)
lstrip(s) ==
    IF s # <<>> /\ Head(s) \in Whitespace THEN lstrip(Tail(s)) ELSE s

RECURSIVE rstrip(_)
rstrip(s) ==
    IF s # <<>> /\ s[Len(s)] \in Whitespace
    THEN rstrip(SubSeq(s, 1, Len(s) - 1))
    ELSE s

str_strip(s) == rstrip(lstrip(s))

\* str.split(): the maximal runs of non-whitespace characters, in order
RECURSIVE split_from(_, _, _)
split_from(s, cur, acc) ==
    IF s = <<>>
    THEN IF cur = <<>> THEN acc ELSE Append(acc, cur)
    ELSE IF Head(s) \in Whitespace
         THEN split_from(Tail(s), <<>>,
                         IF cur = <<>> THEN acc ELSE Append(acc, cur))
         ELSE split_from(Tail(s), Append(cur, Head(s)), acc)

str_split(s) == split_from(s, <<>>, <<>>)

\* ------------------------------------------------------------ allow-lists
\* ['nya', 'ixic', 'hsi', 'n225', 'gspc']
SYMBOLS ==
    << <<"n","y","a">>,
       <<"i","x","i","c">>,
       <<"h","s","i">>,
       <<"n","2","2","5">>,
       <<"g","s","p","c">> >>

\* ['united states', 'china', 'japan', 'europe', 'germany', 'hong kong']
REGIONS ==
    << <<"u","n","i","t","e","d"," ","s","t","a","t","e","s">>,
       <<"c","h","i","n","a">>,
       <<"j","a","p","a","n">>,
       <<"e","u","r","o","p","e">>,
       <<"g","e","r","m","a","n","y">>,
       <<"h","o","n","g"," ","k","o","n","g">> >>

InList(x, list) == \E i \in 1..Len(list) : list[i] = x

\* --------------------------------------------------------------- datasets
S_NYA  == <<"N","Y","A">>
S_GSPC == <<"G","S","P","C">>
S_HSI  == <<"H","S","I">>

\* A missing Region cell (pandas NaN); it is no string.
NaN == <<"NaN">>

R_US    == <<"U","n","i","t","e","d"," ","S","t","a","t","e","s">>
R_China == <<"C","h","i","n","a">>
R_HK    == <<"H","o","n","g"," ","K","o","n","g">>

Min(a, b) == IF a <= b THEN a ELSE b
Max(a, b) == IF a >= b THEN a ELSE b

\* indexData.csv with n rows whose Index column repeats the pattern; Date
\* numbers the rows in on-disk order and stands for the other columns.
Rows(pattern, n) ==
    [i \in 1..n |-> [Index |-> pattern[((i - 1) % Len(pattern)) + 1],
                     Date  |-> i]]

Patterns  == { <<S_NYA>>, <<S_GSPC, S_NYA>>, <<S_HSI, S_GSPC, S_GSPC>> }
RowCounts == { 2, MaxRows, MaxLimit + 2 }

\* conform: the records also carry the lower-case fields StockData requires.
DataFiles ==
    { [readable |-> FALSE, rows |-> <<>>, conform |-> FALSE] }
    \cup { [readable |-> TRUE, rows |-> <<>>, conform |-> TRUE] }
    \cup { [readable |-> TRUE, rows |-> Rows(p, n), conform |-> c] :
              p \in Patterns, n \in RowCounts, c \in BOOLEAN }

Info(index, exchange, region, currency) ==
    [Index |-> index, Exchange |-> exchange, Region |-> region,
     Currency |-> currency]

InfoFiles ==
    { [readable |-> FALSE, rows |-> <<>>],
      [readable |-> TRUE,  rows |-> <<>>],
      [readable |-> TRUE,
       rows |-> << Info(S_NYA, "NYSE", R_US, "USD"),
                   Info(S_GSPC, "SP", NaN, "USD") >>],
      [readable |-> TRUE,
       rows |-> << Info(S_HSI, "HKEX", R_HK, "HKD") >>],
      [readable |-> TRUE,
       rows |-> << Info(<<"0","0","0","0","0","1",".","S","S">>, "SSE",
                        R_China, "CNY"),
                   Info(S_HSI, "HKEX", R_HK, "HKD"),
                   Info(<<"3","9","9","0","0","1",".","S","Z">>, "SZSE",
                        R_China, "CNY") >>] }

\* ------------------------------------------------------- dataset accessor
\* pd.read_csv: the rows of the file, or an exception.
read_csv(file) ==
    IF file.readable
    THEN [raised |-> FALSE, df |-> file.rows]
    ELSE [raised |-> TRUE,  df |-> <<>>]

\* DataFrame.tail(n), the slip this development compares head against.
df_tail(df, n) ==
    IF n >= 0
    THEN SubSeq(df, Len(df) - Min(n, Len(df)) + 1, Len(df))
    ELSE SubSeq(df, Min(0 - n, Len(df)) + 1, Len(df))

\* DataFrame.head(n): the first n rows; for negative n all rows but the
\* last -n.
df_head(df, n) ==
    IF n >= 0
    THEN SubSeq(df, 1, Min(n, Len(df)))
    ELSE SubSeq(df, 1, Max(0, Len(df) + n))

get_stock_data_by_index(index_symbol, limit, file) ==
    LET r == read_csv(file)
    IN  IF r.raised
        THEN <<>>
        ELSE df_head(SelectSeq(r.df, LAMBDA row : row.Index = index_symbol),
                     limit)

\* Series.str.contains(region, case=False, na=False) on one cell; the
\* allow-listed phrases hold no regular-expression metacharacter.
region_contains(cell, region) ==
    IF cell = NaN THEN FALSE ELSE str_in(str_lower(region), str_lower(cell))

get_index_info_by_region(region, file) ==
    LET r == read_csv(file)
    IN  IF r.raised
        THEN <<>>
        ELSE SelectSeq(r.df, LAMBDA row : region_contains(row.Region, region))

\* The context text: one line per index record and the count, or the fixed
\* sentence when indexInfo.csv cannot be read.
create_context_for_chat(file) ==
    LET r == read_csv(file)
    IN  IF r.raised
        THEN [fallback |-> TRUE, lines |-> <<>>, total |-> 0]
        ELSE [fallback |-> FALSE,
              lines |-> [i \in 1..Len(r.df) |->
                            <<r.df[i].Index, r.df[i].Exchange,
                              r.df[i].Region, r.df[i].Currency>>],
              total |-> Len(r.df)]

\* ------------------------------------------------------ completion service
\* What model.generate_content does on one call: it returns a text, or it
\* raises and text is the message of the exception.
GeminiOutcomes ==
    { [ok |-> TRUE,  text |-> "Generated answer"],
      [ok |-> FALSE, text |-> "quota exceeded"] }

\* The prompt template of lines 61-70, as its parts in order: the heading,
\* the context block, the user's question, the fixed instruction.
full_prompt(prompt, context) ==
    << [part |-> "text",    value |-> "Context about stock market data:"],
       [part |-> "context", value |-> context],
       [part |-> "text",    value |-> "User Question: "],
       [part |-> "prompt",  value |-> prompt],
       [part |-> "text",    value |-> "Please provide a helpful response"] >>

\* A text is a sequence of parts; the except branch returns the fixed
\* prefix followed by str(e).
query_gemini(prompt, context, outcome) ==
    IF outcome.ok
    THEN <<outcome.text>>
    ELSE <<"Error generating response: ", outcome.text>>

\* ------------------------------------------------------------ query router
\* The "data" entry of the answer: None, {"stock_data": rows} or
\* {"index_info": rows}.
NoData == [key |-> "None", rows |-> <<>>]
DataDict(key, rows) == [key |-> key, rows |-> rows]

\* any(word in message.lower() for word in [...]): a substring test
contains_symbol(lowered) ==
    \E i \in 1..Len(SYMBOLS) : str_in(SYMBOLS[i], lowered)

\* The slip that scans the allow-list and takes its first entry that is a
\* word of the message.
first_symbol_word_allowlist(words) ==
    IF \E k \in 1..Len(words) : InList(words[k], SYMBOLS)
    THEN LET i == CHOOSE i \in 1..Len(SYMBOLS) :
                     /\ InList(SYMBOLS[i], words)
                     /\ \A j \in 1..(i - 1) : ~InList(SYMBOLS[j], words)
         IN  CHOOSE k \in 1..Len(words) : words[k] = SYMBOLS[i]
    ELSE 0

\* for word in words: if word in [...]: ... break
\* The position of the first word of the message that is an allow-listed
\* symbol, 0 when the loop ends without a hit.
first_symbol_word(words) ==
    IF \E k \in 1..Len(words) : InList(words[k], SYMBOLS)
    THEN CHOOSE k \in 1..Len(words) :
             /\ InList(words[k], SYMBOLS)
             /\ \A j \in 1..(k - 1) : ~InList(words[j], SYMBOLS)
    ELSE 0

\* The slip that attaches the rows of the first allow-listed symbol that is
\* a substring of the message, without the word test.
symbol_step_substring(message, dataFile) ==
    LET lowered == str_lower(message)
    IN  IF contains_symbol(lowered)
        THEN LET i == CHOOSE i \in 1..Len(SYMBOLS) :
                         /\ str_in(SYMBOLS[i], lowered)
                         /\ \A j \in 1..(i - 1) : ~str_in(SYMBOLS[j], lowered)
                 stock_data == get_stock_data_by_index(
                                   str_upper(SYMBOLS[i]), ChatLimit, dataFile)
             IN  [data |-> IF stock_data # <<>>
                           THEN DataDict("stock_data", stock_data)
                           ELSE NoData,
                  lookups |-> <<str_upper(SYMBOLS[i])>>]
        ELSE [data |-> NoData, lookups |-> <<>>]

\* Lines 129-140: data after the symbol check, and the symbols looked up.
symbol_step(message, dataFile) ==
    LET lowered == str_lower(message)
        words   == str_split(lowered)
        k       == first_symbol_word(words)
    IN  IF contains_symbol(lowered) /\ k # 0
        THEN LET stock_data == get_stock_data_by_index(
                                   str_upper(words[k]), ChatLimit, dataFile)
             IN  [data |-> IF stock_data # <<>>
                           THEN DataDict("stock_data", stock_data)
                           ELSE NoData,
                  lookups |-> <<str_upper(words[k])>>]
        ELSE [data |-> NoData, lookups |-> <<>>]

\* The slip that leaves out the break: the scan goes on to the last phrase
\* of REGIONS the message contains.
first_region_nobreak(lowered) ==
    IF \E i \in 1..Len(REGIONS) : str_in(REGIONS[i], lowered)
    THEN CHOOSE i \in 1..Len(REGIONS) :
             /\ str_in(REGIONS[i], lowered)
             /\ \A j \in (i + 1)..Len(REGIONS) : ~str_in(REGIONS[j], lowered)
    ELSE 0

\* for region in regions: if region in message.lower(): ... break
\* The position in REGIONS of the first phrase the message contains, or 0.
first_region(lowered) ==
    IF \E i \in 1..Len(REGIONS) : str_in(REGIONS[i], lowered)
    THEN CHOOSE i \in 1..Len(REGIONS) :
             /\ str_in(REGIONS[i], lowered)
             /\ \A j \in 1..(i - 1) : ~str_in(REGIONS[j], lowered)
    ELSE 0

\* The slip that lets the region records fill data only when the symbol
\* check left it empty.
region_step_keep(data, message, infoFile) ==
    LET r == first_region(str_lower(message))
    IN  IF r = 0
        THEN [data |-> data, regions |-> <<>>]
        ELSE LET index_info == get_index_info_by_region(REGIONS[r], infoFile)
             IN  [data |-> IF index_info # <<>> /\ data = NoData
                           THEN DataDict("index_info", index_info)
                           ELSE data,
                  regions |-> <<REGIONS[r]>>]

\* Lines 142-149: data after the region check, and the phrases looked up.
region_step(data, message, infoFile) ==
    LET r == first_region(str_lower(message))
    IN  IF r = 0
        THEN [data |-> data, regions |-> <<>>]
        ELSE LET index_info == get_index_info_by_region(REGIONS[r], infoFile)
             IN  [data |-> IF index_info # <<>>
                           THEN DataDict("index_info", index_info)
                           ELSE data,
                  regions |-> <<REGIONS[r]>>]

\* The slip that reports a failed completion as success = False and sets
\* no "error" entry.
process_chat_message_noerror(message, outcome, dataFile, infoFile) ==
    LET context  == create_context_for_chat(infoFile)
        response == query_gemini(message, context, outcome)
        sym      == symbol_step(message, dataFile)
        reg      == region_step(sym.data, message, infoFile)
    IN  [raised   |-> FALSE,
         result   |-> [response |-> response, data |-> reg.data,
                       success |-> outcome.ok],
         prompts  |-> << [prompt |-> full_prompt(message, context),
                          ok |-> outcome.ok, text |-> outcome.text] >>,
         lookups  |-> sym.lookups,
         regions  |-> reg.regions]

\* The slip that calls the completion service a second time when the first
\* call raised.
process_chat_message_retry(message, outcome, dataFile, infoFile) ==
    LET context  == create_context_for_chat(infoFile)
        response == query_gemini(message, context, outcome)
        sym      == symbol_step(message, dataFile)
        reg      == region_step(sym.data, message, infoFile)
        call     == [prompt |-> full_prompt(message, context),
                     ok |-> outcome.ok, text |-> outcome.text]
    IN  [raised   |-> FALSE,
         result   |-> [response |-> response, data |-> reg.data,
                       success |-> TRUE],
         prompts  |-> IF outcome.ok THEN <<call>> ELSE <<call, call>>,
         lookups  |-> sym.lookups,
         regions  |-> reg.regions]

\* process_chat_message: the dict it returns and the calls it made.  Every
\* call in its try block catches its own exceptions, so nothing reaches the
\* except branch of lines 156-162 and nothing is raised to the caller.
process_chat_message(message, outcome, dataFile, infoFile) ==
    LET context  == create_context_for_chat(infoFile)
        response == query_gemini(message, context, outcome)
        sym      == symbol_step(message, dataFile)
        reg      == region_step(sym.data, message, infoFile)
    IN  [raised   |-> FALSE,
         result   |-> [response |-> response, data |-> reg.data,
                       success |-> TRUE],
         prompts  |-> << [prompt |-> full_prompt(message, context),
                          ok |-> outcome.ok, text |-> outcome.text] >>,
         lookups  |-> sym.lookups,
         regions  |-> reg.regions]

\* ------------------------------------------------------------------ inputs
W_nya       == <<"n","y","a">>
W_GSPC      == <<"G","S","P","C">>
W_kenya     == <<"k","e","n","y","a">>
W_China     == <<"C","h","i","n","a">>
W_hong_kong == <<"h","o","n","g"," ","K","o","n","g">>

Words == { W_nya, W_GSPC, W_kenya, W_China, W_hong_kong }

RECURSIVE JoinWords(_)
JoinWords(ws) ==
    IF Len(ws) = 1 THEN ws[1] ELSE ws[1] \o <<" ">> \o JoinWords(Tail(ws))

BlankMessages  == { <<>>, <<" ">>, <<"\t", " ">> }
PaddedMessages == { <<" ">> \o w \o <<"\t">> \o w \o <<"\n">> : w \in Words }
WordMessages   ==
    { JoinWords(ws) : ws \in UNION { [1..n -> Words] : n \in 1..MaxWords } }

\* The message of a ChatRequest: any str (pydantic admits nothing else).
Messages == BlankMessages \cup PaddedMessages \cup WordMessages

\* The path parameter of /stock-data/{index_symbol}
PathSymbols == { W_nya, W_GSPC, <<"z","z">> }

\* The query parameter limit: omitted, or an int
Limits ==
    { [given |-> FALSE, value |-> 0] }
    \cup { [given |-> TRUE, value |-> v] :
              v \in { 0 - MaxRows, -1, 0, 1, ChatLimit, MaxLimit,
                      MaxLimit + 1, 5 * MaxLimit } }

\* ------------------------------------------------------------------- state
VARIABLES
    indexData,      \* app/data/indexData.csv
    indexInfo,      \* app/data/indexInfo.csv
    pc,             \* "idle": awaiting a request; "responded": one was served
    request,        \* the request being served
    response,       \* the HTTP response to it
    routerCalls,    \* the calls of process_chat_message made while serving it
    completions,    \* the calls of model.generate_content made while serving it
    stockLookups,   \* the calls of get_stock_data_by_index made while serving it
    regionLookups,  \* the calls of get_index_info_by_region made while serving it
    messages,       \* st.session_state.messages of the dashboard's chat page
    apiAnswer       \* what send_chat_message returned in the page's last run

vars == <<indexData, indexInfo, pc, request, response, routerCalls,
          completions, stockLookups, regionLookups, messages, apiAnswer>>

\* The state of the API server
server == <<indexData, indexInfo, pc, request, response, routerCalls,
            completions, stockLookups, regionLookups>>

\* The state of the dashboard session
session == <<messages, apiAnswer>>

\* send_chat_message returns None, or a dict
PyNone == [isNone |-> TRUE, dict |-> [success |-> FALSE]]
PyDict(d) == [isNone |-> FALSE, dict |-> d]

NoRequest  == [endpoint |-> "none"]
NoResponse == [status |-> 0]

Init ==
    /\ indexData \in DataFiles
    /\ indexInfo \in InfoFiles
    /\ pc = "idle"
    /\ request = NoRequest
    /\ response = NoResponse
    /\ routerCalls = <<>>
    /\ completions = <<>>
    /\ stockLookups = <<>>
    /\ regionLookups = <<>>
    /\ messages = <<>>
    /\ apiAnswer = PyNone

\* ChatResponse(response=result["response"], data=result.get("data"),
\*              success=result["success"], error=result.get("error"))
ChatResponse(result) ==
    [response |-> result.response,
     data     |-> result.data,
     success  |-> result.success,
     error    |-> IF "error" \in DOMAIN result THEN result.error ELSE "None"]

\* The slip that tests the message without stripping it.
message_is_empty_nostrip(message) == message = <<>>

\* not request.message.strip()
message_is_empty(message) == str_strip(message) = <<>>

\* POST /chat.  The HTTPException(400) of line 62 is raised inside the try
\* block, and HTTPException is an Exception: the handler of line 73 catches
\* it and raises HTTPException(500) with str(e) in the detail.  The handler
\* touches the server's state only; the session of the client is left to
\* the client's action.
chat_endpoint(message, outcome) ==
    /\ pc = "idle"
    /\ pc' = "responded"
    /\ request' = [endpoint |-> "chat", message |-> message]
    /\ IF message_is_empty(message)
       THEN /\ response' = [status |-> 500,
                            detail |-> <<"Error processing chat: ",
                                         "400: Message cannot be empty">>]
            /\ routerCalls' = <<>>
            /\ completions' = <<>>
            /\ stockLookups' = <<>>
            /\ regionLookups' = <<>>
       ELSE \E r \in {process_chat_message(message, outcome,
                                          indexData, indexInfo)} :
                /\ routerCalls' = << [message |-> message,
                                      raised  |-> r.raised,
                                      result  |-> r.result] >>
                /\ completions' = r.prompts
                /\ stockLookups' = [i \in 1..Len(r.lookups) |->
                                      [symbol |-> r.lookups[i],
                                       limit  |-> ChatLimit]]
                /\ regionLookups' = r.regions
                /\ response' =
                       IF r.raised
                       THEN [status |-> 500,
                             detail |-> <<"Error processing chat: ",
                                          "router fault">>]
                       ELSE [status |-> 200, body |-> ChatResponse(r.result)]
    /\ UNCHANGED <<indexData, indexInfo>>

\* GET /stock-data/{index_symbol}?limit=N
get_stock_data(index_symbol, limit) ==
    /\ pc = "idle"
    /\ pc' = "responded"
    /\ request' = [endpoint |-> "stock-data", symbol |-> index_symbol,
                   limit |-> limit]
    /\ LET n          == IF limit.given THEN limit.value ELSE DefaultLimit
           clamped    == IF n > MaxLimit THEN MaxLimit ELSE n
           stock_data == get_stock_data_by_index(str_upper(index_symbol),
                                                 clamped, indexData)
       IN  /\ stockLookups' = << [symbol |-> str_upper(index_symbol),
                                  limit  |-> clamped] >>
           /\ response' =
                  IF stock_data = <<>>
                  THEN [status |-> 404,
                        detail |-> <<"No data found for index: ",
                                     index_symbol>>]
                  ELSE IF ~indexData.conform
                  THEN [status |-> 500,
                        detail |-> <<"Error getting stock data: ",
                                     "validation error for StockData">>]
                  ELSE [status |-> 200, body |-> stock_data]
    /\ routerCalls' = <<>>
    /\ completions' = <<>>
    /\ regionLookups' = <<>>
    /\ UNCHANGED <<indexData, indexInfo, messages, apiAnswer>>

\* The server goes on to the next request; nothing of the served one is kept.
next_request ==
    /\ pc = "responded"
    /\ pc' = "idle"
    /\ request' = NoRequest
    /\ response' = NoResponse
    /\ routerCalls' = <<>>
    /\ completions' = <<>>
    /\ stockLookups' = <<>>
    /\ regionLookups' = <<>>
    /\ UNCHANGED <<indexData, indexInfo, messages, apiAnswer>>

\* POST /chat from a client other than the dashboard page
api_chat(message, outcome) ==
    /\ chat_endpoint(message, outcome)
    /\ UNCHANGED session

Next ==
    \/ \E message \in Messages, outcome \in GeminiOutcomes :
           api_chat(message, outcome)
    \/ \E index_symbol \in PathSymbols, limit \in Limits :
           get_stock_data(index_symbol, limit)
    \/ next_request

Spec == Init /\ [][Next]_vars

\* ------------------------------------------------- dashboard: the chat page
\* What requests.post does: the response arrives, or the call raises because
\* the server is not reached, or because no response came within timeout=30
\* (the server has served the request all the same).
Transports == { "delivered", "refused", "timeout" }

\* str(e) of the exception requests.post raises
TransportFault(transport) ==
    IF transport = "refused" THEN "Connection refused" ELSE "Read timed out"

\* send_chat_message: the JSON body of a 200 response, None for any other
\* status, and the dict of the except branch when the call raised.
send_chat_message(transport, http) ==
    IF transport # "delivered"
    THEN PyDict([response |-> <<"Error: ", TransportFault(transport)>>,
                 success  |-> FALSE])
    ELSE IF http.status = 200
    THEN PyDict(http.body)
    ELSE PyNone

\* response and response.get("success", False)
answer_succeeded(r) ==
    /\ ~r.isNone
    /\ IF "success" \in DOMAIN r.dict THEN r.dict.success ELSE FALSE

\* The content of the assistant entry: bot_response, or error_msg
assistant_content(r) ==
    IF answer_succeeded(r)
    THEN r.dict.response
    ELSE IF ~r.isNone
    THEN IF "response" \in DOMAIN r.dict
         THEN r.dict.response
         ELSE <<"Sorry, I encountered an error. Please try again.">>
    ELSE <<"Sorry, I couldn't connect to the server.">>

\* The slip that appends the assistant entry in the success branch only.
history_after_run_success_only(history, prompt, r) ==
    IF answer_succeeded(r)
    THEN history \o << [role |-> "user",      content |-> prompt],
                       [role |-> "assistant", content |-> assistant_content(r)] >>
    ELSE Append(history, [role |-> "user", content |-> prompt])

\* The history after one run of the page with a prompt: the appends of
\* lines 196 and 228.
history_after_run(history, prompt, r) ==
    history \o << [role |-> "user",      content |-> prompt],
                  [role |-> "assistant", content |-> assistant_content(r)] >>

\* The prompts typed into st.chat_input; the empty prompt starts no run.
Prompts == { W_nya, <<" ">> }

\* One run of show_chat_page with a submitted prompt, the POST /chat it
\* makes included.
show_chat_page(prompt, outcome, transport) ==
    /\ prompt # <<>>
    /\ Len(messages) < 2 * MaxTurns
    /\ IF transport = "refused"
       THEN UNCHANGED server
       ELSE chat_endpoint(prompt, outcome)
    /\ apiAnswer' = send_chat_message(transport, response')
    /\ messages' = history_after_run(messages, prompt, apiAnswer')

\* One run of show_chat_page with the button "Clear Chat History" pressed
clear_chat_history ==
    /\ messages' = <<>>
    /\ UNCHANGED <<server, apiAnswer>>

\* The dashboard session against a server with these files
DashboardInit ==
    /\ Init
    /\ indexData.rows = Rows(<<S_GSPC, S_NYA>>, 2) \/ ~indexData.readable
    /\ indexInfo.rows = <<>>

DashboardNext ==
    \/ \E prompt \in Prompts, outcome \in GeminiOutcomes,
          transport \in Transports :
           show_chat_page(prompt, outcome, transport)
    \/ clear_chat_history
    \/ next_request

DashboardSpec == DashboardInit /\ [][DashboardNext]_vars

\* -------------------------------------------------- vocabulary of the claims
ChatServed   == pc = "responded" /\ request.endpoint = "chat"
StockServed  == pc = "responded" /\ request.endpoint = "stock-data"
RouterRan    == ChatServed /\ routerCalls # <<>>
Answer       == routerCalls[1].result

\* A message that is empty or holds whitespace only
Blank(m) == \A i \in 1..Len(m) : m[i] \in Whitespace

\* The allow-listed symbols that are whitespace-delimited tokens of m
SymbolTokens(m) ==
    LET tokens == str_split(str_lower(m))
    IN  { SYMBOLS[i] : i \in { j \in 1..Len(SYMBOLS) :
                                  \E k \in 1..Len(tokens) :
                                      tokens[k] = SYMBOLS[j] } }

\* The allow-listed region phrases that are substrings of m
RegionPhrases(m) ==
    LET lowered == str_lower(m)
    IN  { REGIONS[i] : i \in { j \in 1..Len(REGIONS) :
                                  str_in(REGIONS[j], lowered) } }

\* The rows of a readable file that satisfy Test, in on-disk order; none
\* when the file cannot be read.
OnDisk(file, Test(_)) ==
    IF file.readable THEN SelectSeq(file.rows, Test) ELSE <<>>

BarsOf(symbol) == OnDisk(indexData, LAMBDA row : row.Index = symbol)

RecordsOf(phrase) ==
    OnDisk(indexInfo,
           LAMBDA row : /\ row.Region # NaN
                        /\ str_in(phrase, str_lower(row.Region)))

\* The Bars attached to the answer (none when data is absent or holds
\* index records)
AttachedBars(a) == IF a.data.key = "stock_data" THEN a.data.rows ELSE <<>>

\* Both CSV files can be read; the completion call returned a text.
FilesReadable == indexData.readable /\ indexInfo.readable
CompletionOk  == completions # <<>> /\ completions[1].ok

\* C1 (as claimed): a chat query whose completion call raised is answered
\* with success = false, errorText = the failure detail, no attachedData and
\* a responseText that embeds the detail.  Stated for the runs in which the
\* datasets are read without fault, so that the completion fault is the
\* only one.
C1_FailedCompletionReported ==
    (RouterRan /\ FilesReadable
               /\ \E i \in 1..Len(completions) : ~completions[i].ok) =>
        \A i \in 1..Len(completions) :
            ~completions[i].ok =>
                /\ Answer.success = FALSE
                /\ "error" \in DOMAIN Answer
                /\ Answer.error = completions[i].text
                /\ Answer.data = NoData
                /\ \E j \in 1..Len(Answer.response) :
                       Answer.response[j] = completions[i].text

\* C2 (as claimed): POST /chat with an empty or whitespace-only message is
\* answered with a 4xx status.
C2_BlankMessageIs4xx ==
    (ChatServed /\ Blank(request.message)) => response.status \in 400..499

\* C3 (as claimed): when the message holds a symbol token and a region
\* phrase, attachedData is never the Bar list, whatever the two datasets
\* hold, also when the region lookup returns no records.  Stated for the
\* runs without any fault: both files are read and the completion returns.
C3_RegionAlwaysWins ==
    (RouterRan /\ FilesReadable /\ CompletionOk
               /\ SymbolTokens(request.message) # {}
               /\ RegionPhrases(request.message) # {}) =>
        Answer.data.key # "stock_data"

\* C3 (amended): when the message holds a symbol token and a region phrase,
\* and the region lookup returns at least one record, attachedData holds
\* exactly those index records and never the Bar list; when the lookup
\* returns none, attachedData holds no index records and is what the symbol
\* check left: the Bars of the looked-up symbol if there are any, else absent.
C3_RegionWinsWhenFound ==
    (RouterRan /\ SymbolTokens(request.message) # {}
               /\ RegionPhrases(request.message) # {}) =>
        /\ Len(regionLookups) = 1
        /\ Len(stockLookups) = 1
        /\ LET found == RecordsOf(regionLookups[1])
               bars  == BarsOf(stockLookups[1].symbol)
           IN  IF found # <<>>
               THEN Answer.data = DataDict("index_info", found)
               ELSE /\ Answer.data.key # "index_info"
                    /\ (Answer.data.key = "stock_data") <=> (bars # <<>>)

\* C3 witness: both detectors fired, the symbol has Bars on disk, and the
\* region's records replaced them.
C3_Witness ==
    /\ RouterRan
    /\ SymbolTokens(request.message) # {}
    /\ RegionPhrases(request.message) # {}
    /\ Len(stockLookups) = 1
    /\ BarsOf(stockLookups[1].symbol) # <<>>
    /\ Answer.data.key = "index_info"
    /\ Answer.data.rows # <<>>
    /\ response.status = 200
    /\ response.body.data = Answer.data

\* C4 (as claimed): a 200 response of GET /stock-data/{symbol}?limit=N holds
\* at most min(N, 100) Bars, and at most 10 when limit is omitted.
C4_AtMostMinLimit ==
    (StockServed /\ response.status = 200) =>
        /\ Len(response.body) <= MaxLimit
        /\ Len(response.body) <=
               (IF request.limit.given
                THEN Min(request.limit.value, MaxLimit)
                ELSE DefaultLimit)

\* The allow-listed symbol that comes first in allow-list order among the
\* tokens of m, in upper case
FirstInAllowList(m) ==
    LET i == CHOOSE i \in 1..Len(SYMBOLS) :
                 /\ SYMBOLS[i] \in SymbolTokens(m)
                 /\ \A j \in 1..(i - 1) : SYMBOLS[j] \notin SymbolTokens(m)
    IN  str_upper(SYMBOLS[i])

\* The allow-listed symbol that comes first in the message among its
\* tokens, in upper case
FirstInMessage(m) ==
    LET tokens == str_split(str_lower(m))
        hits   == { k \in 1..Len(tokens) : tokens[k] \in SymbolTokens(m) }
        k      == CHOOSE k \in hits : \A h \in hits : k <= h
    IN  str_upper(tokens[k])

\* C5 (as claimed): when the message names several allow-listed symbols as
\* tokens, the attached Bars are those of the symbol that comes first in
\* allow-list order, whatever the order of the tokens in the message.
\* Stated for the runs without any fault.
C5_FirstInAllowListOrder ==
    (RouterRan /\ FilesReadable /\ CompletionOk
               /\ Cardinality(SymbolTokens(request.message)) >= 2) =>
        \A i \in 1..Len(AttachedBars(Answer)) :
            AttachedBars(Answer)[i].Index = FirstInAllowList(request.message)

\* C5 (amended): when the message names several allow-listed symbols as
\* tokens, the one symbol looked up is the first allow-listed token in the
\* order of the message (not of the allow-list), and only Bars of that
\* symbol are ever attached.
C5_FirstInMessageOrder ==
    (RouterRan /\ Cardinality(SymbolTokens(request.message)) >= 2) =>
        /\ stockLookups = << [symbol |-> FirstInMessage(request.message),
                              limit  |-> ChatLimit] >>
        /\ \A i \in 1..Len(AttachedBars(Answer)) :
               AttachedBars(Answer)[i].Index = FirstInMessage(request.message)

\* C5 witness: two symbols named, the later one of the allow-list first in
\* the message, and its Bars attached.
C5_Witness ==
    /\ RouterRan
    /\ Cardinality(SymbolTokens(request.message)) >= 2
    /\ FirstInMessage(request.message) # FirstInAllowList(request.message)
    /\ AttachedBars(Answer) # <<>>
    /\ AttachedBars(Answer)[1].Index = FirstInMessage(request.message)
    /\ BarsOf(FirstInAllowList(request.message)) # <<>>

\* A dataset read failed while the router served the query: the context is
\* always built from indexInfo.csv, the region lookup reads it again, and
\* the symbol lookup reads indexData.csv.
DatasetReadFailed ==
    \/ ~indexInfo.readable
    \/ stockLookups # <<>> /\ ~indexData.readable

\* C6 (as claimed): when a dataset read fails while the router serves a
\* query, the answer has success = false and carries the fault detail.
\* Stated for the runs in which the completion call returns, so that the
\* dataset fault is the only one.
C6_DatasetFailureReported ==
    (RouterRan /\ CompletionOk /\ DatasetReadFailed) =>
        /\ Answer.success = FALSE
        /\ "error" \in DOMAIN Answer
        /\ Answer.error # "None"

\* C7: the router never raises; for every message and every outcome of the
\* dataset reads and of the completion call it returns an answer whose
\* responseText and success are set, and whose errorText is set whenever
\* success is false.
C7_RouterAlwaysAnswers ==
    ChatServed =>
        \A k \in 1..Len(routerCalls) :
            LET a == routerCalls[k].result
            IN  /\ ~routerCalls[k].raised
                /\ {"response", "data", "success"} \subseteq DOMAIN a
                /\ Len(a.response) >= 1
                /\ a.success \in BOOLEAN
                /\ a.success = FALSE =>
                       ("error" \in DOMAIN a /\ a.error # "None")
                /\ response.status = 200
                /\ response.body.response = a.response
                /\ response.body.success = a.success

\* C7 witness: the router answered a query during which both files were
\* unreadable, a symbol and a region lookup were made and the completion
\* call raised.
C7_Witness ==
    /\ RouterRan
    /\ ~indexInfo.readable
    /\ ~indexData.readable
    /\ stockLookups # <<>>
    /\ regionLookups # <<>>
    /\ ~completions[1].ok
    /\ ~routerCalls[1].raised
    /\ response.status = 200

\* C8: a message with no allow-listed symbol among its tokens and no
\* allow-listed region phrase in it gets an answer without attachedData.
C8_NoMatchNoData ==
    (RouterRan /\ SymbolTokens(request.message) = {}
               /\ RegionPhrases(request.message) = {}) =>
        /\ Answer.data = NoData
        /\ response.body.data = NoData
        /\ stockLookups = <<>>
        /\ regionLookups = <<>>

\* C8 witness: a message that holds "nya" inside a longer word only, served
\* while NYA has Bars on disk, is answered without data.
C8_Witness ==
    /\ RouterRan
    /\ SymbolTokens(request.message) = {}
    /\ RegionPhrases(request.message) = {}
    /\ str_in(SYMBOLS[1], str_lower(request.message))
    /\ BarsOf(S_NYA) # <<>>
    /\ response.status = 200
    /\ response.body.data = NoData

\* The positions in indexData.csv of the rows of a symbol
PositionsOf(symbol) ==
    IF indexData.readable
    THEN { p \in 1..Len(indexData.rows) : indexData.rows[p].Index = symbol }
    ELSE {}

\* bars is the first n rows of the symbol (all of them if there are fewer),
\* in on-disk order
IsFirstRowsOf(bars, symbol, n) ==
    LET P == PositionsOf(symbol)
    IN  /\ Len(bars) = Min(n, Cardinality(P))
        /\ \A j \in 1..Len(bars) :
               \E p \in P : /\ Cardinality({ q \in P : q <= p }) = j
                            /\ bars[j] = indexData.rows[p]

\* C9: a message with exactly one allow-listed symbol among its tokens and
\* no region phrase gets the Bars of that symbol attached: each has that
\* symbol as index, there are at most 5, and they are the first rows of the
\* symbol in on-disk order (attachedData is absent when there is no row).
C9_OneSymbolBars ==
    (RouterRan /\ Cardinality(SymbolTokens(request.message)) = 1
               /\ RegionPhrases(request.message) = {}) =>
        LET symbol == str_upper(CHOOSE t \in SymbolTokens(request.message) :
                                    TRUE)
            bars   == AttachedBars(Answer)
        IN  /\ Answer.data.key \in {"stock_data", "None"}
            /\ Answer.data.key = "stock_data" => bars # <<>>
            /\ \A i \in 1..Len(bars) : bars[i].Index = symbol
            /\ Len(bars) <= 5
            /\ IsFirstRowsOf(bars, symbol, 5)
            /\ response.body.data = Answer.data

\* C9 witness: the symbol has more than 5 rows on disk, among rows of other
\* symbols, and exactly 5 Bars are attached.
C9_Witness ==
    /\ RouterRan
    /\ Cardinality(SymbolTokens(request.message)) = 1
    /\ RegionPhrases(request.message) = {}
    /\ Len(AttachedBars(Answer)) = 5
    /\ Cardinality(PositionsOf(AttachedBars(Answer)[1].Index)) > 5
    /\ Cardinality(PositionsOf(AttachedBars(Answer)[1].Index))
           < Len(indexData.rows)

\* C10: while POST /chat serves an empty or whitespace-only message, the
\* router is not invoked and no completion call is made.
C10_BlankNeverRouted ==
    (ChatServed /\ Blank(request.message)) =>
        /\ routerCalls = <<>>
        /\ completions = <<>>
        /\ stockLookups = <<>>
        /\ regionLookups = <<>>

\* C10 witness: a message of whitespace characters only was served and
\* rejected without any call.
C10_Witness ==
    /\ ChatServed
    /\ request.message # <<>>
    /\ Blank(request.message)
    /\ routerCalls = <<>>
    /\ completions = <<>>
    /\ response.status # 200

\* The index records attached to the answer (none when data is absent or
\* holds Bars)
AttachedRecords(a) == IF a.data.key = "index_info" THEN a.data.rows ELSE <<>>

\* The allow-listed region phrase that comes first in allow-list order among
\* those the message contains
FirstRegionInAllowList(m) ==
    LET i == CHOOSE i \in 1..Len(REGIONS) :
                 /\ REGIONS[i] \in RegionPhrases(m)
                 /\ \A j \in 1..(i - 1) : REGIONS[j] \notin RegionPhrases(m)
    IN  REGIONS[i]

ContextOf(file) ==
    IF file.readable
    THEN [fallback |-> FALSE,
          lines |-> [i \in 1..Len(file.rows) |->
                        <<file.rows[i].Index, file.rows[i].Exchange,
                          file.rows[i].Region, file.rows[i].Currency>>],
          total |-> Len(file.rows)]
    ELSE [fallback |-> TRUE, lines |-> <<>>, total |-> 0]

\* The positions of the parts of a kind in a prompt
PartsOf(prompt, kind) == { i \in 1..Len(prompt) : prompt[i].part = kind }

\* C12: a chat query that reaches the router causes exactly one completion
\* call, never a second one, whether it returns or raises and whichever
\* detectors fire; its prompt carries the context block built from
\* indexInfo.csv and, after it, the user's message as it was sent.
C12_OneCompletionCall ==
    RouterRan =>
        /\ Len(completions) = 1
        /\ \E i \in PartsOf(completions[1].prompt, "context") :
           \E j \in PartsOf(completions[1].prompt, "prompt") :
               /\ PartsOf(completions[1].prompt, "context") = {i}
               /\ PartsOf(completions[1].prompt, "prompt") = {j}
               /\ i < j
               /\ completions[1].prompt[i].value = ContextOf(indexInfo)
               /\ completions[1].prompt[j].value = request.message

\* C12 witness: a message with upper-case letters fired both detectors, the
\* one completion call raised, and no second call followed.
C12_Witness ==
    /\ RouterRan
    /\ stockLookups # <<>>
    /\ regionLookups # <<>>
    /\ request.message # str_lower(request.message)
    /\ indexInfo.readable /\ indexInfo.rows # <<>>
    /\ Len(completions) = 1
    /\ ~completions[1].ok
    /\ completions[1].prompt[4].value = request.message

\* The history alternates user, assistant and ends with an assistant entry
HistoryAlternates ==
    /\ Len(messages) % 2 = 0
    /\ \A i \in 1..Len(messages) :
           messages[i].role = IF i % 2 = 1 THEN "user" ELSE "assistant"

\* The error messages the page shows
IsErrorMessage(content) ==
    \/ content = <<"Sorry, I couldn't connect to the server.">>
    \/ content = <<"Sorry, I encountered an error. Please try again.">>
    \/ Len(content) = 2 /\ content[1] = "Error: "

\* A change of the history is a clear, or a run with a prompt that appends
\* one user entry holding the prompt and one assistant entry after it: the
\* response text of the API answer when that answer has success = true (the
\* server's 200 body, when it served this prompt), otherwise an error message.
HistoryStep ==
    messages' # messages =>
        \/ messages' = <<>>
        \/ /\ Len(messages') = Len(messages) + 2
           /\ SubSeq(messages', 1, Len(messages)) = messages
           /\ messages'[Len(messages) + 1].role = "user"
           /\ messages'[Len(messages) + 2].role = "assistant"
           /\ LET reply == messages'[Len(messages) + 2].content
              IN  IF ~apiAnswer'.isNone /\ apiAnswer'.dict.success
                  THEN /\ reply = apiAnswer'.dict.response
                       /\ response'.status = 200
                       /\ request'.message = messages'[Len(messages) + 1].content
                       /\ reply = response'.body.response
                  ELSE IsErrorMessage(reply)

====
